---- MODULE Spec2Model ----
(***************************************************************************)
(* A model of the Go package github.com/neoxelox/errors: error templates   *)
(* (New), raised instances (Raise), the fluent mutators (Skip, With,       *)
(* Extra, Cause, Tags), the identity and membership queries (Is, Has), the *)
(* renderers (String, StringReport) and the Sentry projection              *)
(* (SentryReport).                                                         *)
(*                                                                         *)
(* Representation.                                                         *)
(*  - A Go string is a sequence of runes; a rune is written as a TLA+      *)
(*    string and is atomic ("%s" is the verb rune, ": " the separator).    *)
(*    Concatenation is \o and equality is equality of sequences.           *)
(*  - A value of type any is [t |-> "string", s |-> runes, n |-> 0] or     *)
(*    [t |-> "int", s |-> <<>>, n |-> number].                             *)
(*  - A Go map is a function on its key set; maps are reference objects    *)
(*    kept in heap, and an Error's extra/tags field holds the index of its *)
(*    map (NilMap for a nil map).                                          *)
(*  - A *Error is an index into inst; an Error value is a record.          *)
(*  - A value of the interface type error is one of                        *)
(*      [t |-> "nil"], [t |-> "foreign", id |-> f], [t |-> "ptr", at |-> i]*)
(*      [t |-> "val", v |-> an Error record].                              *)
(***************************************************************************)
EXTENDS Integers, Sequences, FiniteSets, TLC

VARIABLES
    tmpl,   \* the templates returned by New so far, in declaration order
    inst,   \* the Error objects behind the *Error pointers Raise returned
    heap,   \* the map objects made so far (extra and tags maps)
    hist,   \* per instance: its Raise call and the With, Extra and Tags calls
            \* made on it since, in call order, with their arguments
    ops,    \* the number of calls made so far
    fault   \* "none", or the runtime panic that ended the run

vars == <<tmpl, inst, heap, hist, ops, fault>>

\* ------------------------------------------------------------------ bounds

MaxTemplates == 2
MaxInstances == 2
MaxOps == 4
MaxChainOps == 5
MaxHasOps == 6
MaxReportOps == 5
MaxMergeOps == 5

\* const _MAX_FRAMES = 100
_MAX_FRAMES == 100

\* ----------------------------------------------------------------- strings

StringOf(r) == [t |-> "string", s |-> <<r>>, n |-> 0]
IntOf(k) == [t |-> "int", s |-> <<>>, n |-> k]

Digit(d) == <<"0", "1", "2", "3", "4", "5", "6", "7", "8", "9">>[d + 1]

RECURSIVE Itoa(_)
Itoa(n) ==
    IF n < 0 THEN <<"-">> \o Itoa(-n)
    ELSE IF n < 10 THEN <<Digit(n)>>
    ELSE Itoa(n \div 10) \o <<Digit(n % 10)>>

Verbs == {"%s", "%v", "%d"}

\* The letter of a verb rune.
VerbLetter(r) == CASE r = "%s" -> "s" [] r = "%v" -> "v" [] r = "%d" -> "d"

\* fmt: the name of an operand's type and its plain rendering.
TypeName(a) == a.t
Plain(a) == IF a.t = "string" THEN a.s ELSE Itoa(a.n)

\* fmt: one verb applied to one operand; a verb the operand's type does not
\* accept renders as %!verb(type=value).
FormatVerb(r, a) ==
    IF \/ r = "%v"
       \/ r = "%s" /\ a.t = "string"
       \/ r = "%d" /\ a.t = "int"
    THEN Plain(a)
    ELSE <<"%!" \o VerbLetter(r) \o "(" \o TypeName(a) \o "=">> \o Plain(a) \o <<")">>

RECURSIVE ExtraOperands(_)
ExtraOperands(args) ==
    IF args = <<>> THEN <<>>
    ELSE <<TypeName(Head(args)) \o "=">> \o Plain(Head(args))
         \o (IF Len(args) > 1 THEN <<", ">> ELSE <<>>)
         \o ExtraOperands(Tail(args))

\* fmt.Sprintf(format, args...): verbs consume operands left to right, a verb
\* with no operand left renders %!verb(MISSING), operands left over are
\* listed in %!(EXTRA ...).
RECURSIVE Sprintf(_, _)
Sprintf(format, args) ==
    IF format = <<>>
    THEN IF args = <<>> THEN <<>>
         ELSE <<"%!(EXTRA ">> \o ExtraOperands(args) \o <<")">>
    ELSE IF Head(format) \in Verbs
    THEN IF args = <<>>
         THEN <<"%!" \o VerbLetter(Head(format)) \o "(MISSING)">>
              \o Sprintf(Tail(format), args)
         ELSE FormatVerb(Head(format), Head(args))
              \o Sprintf(Tail(format), Tail(args))
    ELSE <<Head(format)>> \o Sprintf(Tail(format), args)

\* strings.LastIndex(s, r) for a one-rune separator: 1-based, 0 when absent
\* (Go's -1).
RECURSIVE LastIndex(_, _)
LastIndex(s, r) ==
    IF s = <<>> THEN 0
    ELSE IF s[Len(s)] = r THEN Len(s)
    ELSE LastIndex(SubSeq(s, 1, Len(s) - 1), r)

\* ------------------------------------------------------------------- data

NilErr == [t |-> "nil"]
Foreign(f) == [t |-> "foreign", id |-> f]
Ptr(i) == [t |-> "ptr", at |-> i]
Val(e) == [t |-> "val", v |-> e]

NilMap == 0
EmptyMap == <<>>

\* The content of the map an extra/tags field refers to; a nil map reads as
\* an empty one.
MapOf(ref) == IF ref = NilMap THEN EmptyMap ELSE heap[ref]

\* ---------------------------------------------------------------- New

\* callers: the functions runtime.Callers(2, ...) finds above New (at most
\* one is read).
NewError(message, captureStackTrace, callers) ==
    LET _captureStackTrace ==
            IF Len(captureStackTrace) > 0 THEN captureStackTrace[1] ELSE TRUE
        length == IF Len(callers) > 1 THEN 1 ELSE Len(callers)
        separator == IF length > 0 THEN LastIndex(callers[1], ".") ELSE 0
        module == IF length > 0 /\ separator > 0
                  THEN SubSeq(callers[1], 1, separator - 1)
                  ELSE <<"unknown">>
    IN  [kind |-> message,
         module |-> module,
         message |-> message,
         cause |-> NilErr,
         extra |-> NilMap,
         stackTrace |-> <<>>,
         captureStackTrace |-> _captureStackTrace,
         tags |-> NilMap]

New(message, captureStackTrace, callers) ==
    /\ fault = "none"
    /\ Len(tmpl) < MaxTemplates
    /\ tmpl' = Append(tmpl, NewError(message, captureStackTrace, callers))
    /\ ops' = ops + 1
    /\ UNCHANGED <<inst, heap, hist, fault>>

\* ---------------------------------------------------------------- Raise

\* The frames Raise records: those of the call stack above Raise, at most
\* _MAX_FRAMES of them, when the template captures.
CaptureStackTrace(self, cs) ==
    IF self.captureStackTrace
    THEN LET length == IF Len(cs) > _MAX_FRAMES THEN _MAX_FRAMES ELSE Len(cs)
         IN  IF length > 0 THEN SubSeq(cs, 1, length) ELSE <<>>
    ELSE <<>>

\* Raise as it would be if every instance were given the first two maps.
RaiseErrorSharedMaps(self, args, cs, extraRef, tagsRef) ==
    [kind |-> self.kind,
     module |-> self.module,
     message |-> Sprintf(self.message, args),
     cause |-> NilErr,
     extra |-> 1,
     stackTrace |-> CaptureStackTrace(self, cs),
     captureStackTrace |-> self.captureStackTrace,
     tags |-> 2]

\* The Error Raise builds from the receiver (a copy of the template); its
\* two maps are the fresh objects at extraRef and tagsRef.
RaiseError(self, args, cs, extraRef, tagsRef) ==
    [kind |-> self.kind,
     module |-> self.module,
     message |-> Sprintf(self.message, args),
     cause |-> NilErr,
     extra |-> extraRef,
     stackTrace |-> CaptureStackTrace(self, cs),
     captureStackTrace |-> self.captureStackTrace,
     tags |-> tagsRef]

Raise(t, args, cs) ==
    /\ fault = "none"
    /\ t \in 1..Len(tmpl)
    /\ Len(inst) < MaxInstances
    /\ inst' = Append(inst, RaiseError(tmpl[t], args, cs, Len(heap) + 1, Len(heap) + 2))
    /\ heap' = heap \o <<EmptyMap, EmptyMap>>
    /\ hist' = Append(hist, <<[op |-> "Raise", t |-> t, args |-> args, cs |-> cs]>>)
    /\ ops' = ops + 1
    /\ UNCHANGED <<tmpl, fault>>

\* ---------------------------------------------------------------- mutators

Log(i, call) == [hist EXCEPT ![i] = Append(@, call)]

\* self.stackTrace[frames:] panics unless 0 <= frames <= len(self.stackTrace).
SkipFaults(self, frames) ==
    self.captureStackTrace /\ (frames < 0 \/ frames > Len(self.stackTrace))

SkipError(self, frames) ==
    IF self.captureStackTrace
    THEN [self EXCEPT !.stackTrace = SubSeq(@, frames + 1, Len(@))]
    ELSE self

Skip(i, frames) ==
    /\ fault = "none"
    /\ i \in 1..Len(inst)
    /\ ops' = ops + 1
    /\ IF SkipFaults(inst[i], frames)
       THEN /\ fault' = "slice bounds out of range"
            /\ UNCHANGED inst
       ELSE /\ inst' = [inst EXCEPT ![i] = SkipError(@, frames)]
            /\ UNCHANGED fault
    /\ UNCHANGED <<tmpl, heap, hist>>

\* With as it would be if the context were put in front of the message.
WithErrorFront(self, message, args) ==
    [self EXCEPT !.message = Sprintf(message, args) \o <<": ">> \o @]

WithError(self, message, args) ==
    [self EXCEPT !.message = @ \o <<": ">> \o Sprintf(message, args)]

With(i, message, args) ==
    /\ fault = "none"
    /\ i \in 1..Len(inst)
    /\ inst' = [inst EXCEPT ![i] = WithError(@, message, args)]
    /\ hist' = Log(i, [op |-> "With", message |-> message, args |-> args])
    /\ ops' = ops + 1
    /\ UNCHANGED <<tmpl, heap, fault>>

\* for key, value := range m { old[key] = value }: the keys of a map are
\* distinct, so the result does not depend on the order of the range.
Assign(old, m) ==
    [key \in DOMAIN old \cup DOMAIN m |-> IF key \in DOMAIN m THEN m[key] ELSE old[key]]

\* Extra as it would be if a key already present kept its value.
ExtraMergeKeep(old, extra) == Assign(extra, old)

ExtraMerge(old, extra) == Assign(old, extra)

\* The map objects after Extra on an instance whose extra map is at ref.
ExtraHeap(ref, extra) == [heap EXCEPT ![ref] = ExtraMerge(@, extra)]

Extra(i, extra) ==
    /\ fault = "none"
    /\ i \in 1..Len(inst)
    /\ heap' = ExtraHeap(inst[i].extra, extra)
    /\ hist' = Log(i, [op |-> "Extra", extra |-> extra])
    /\ ops' = ops + 1
    /\ UNCHANGED <<tmpl, inst, fault>>

CauseError(self, err) == [self EXCEPT !.cause = err]

Cause(i, err) ==
    /\ fault = "none"
    /\ i \in 1..Len(inst)
    /\ inst' = [inst EXCEPT ![i] = CauseError(@, err)]
    /\ ops' = ops + 1
    /\ UNCHANGED <<tmpl, heap, hist, fault>>

\* for key, value := range tags { old[key] = fmt.Sprintf("%v", value) }
TagsMerge(old, tags) ==
    Assign(old, [key \in DOMAIN tags |-> Sprintf(<<"%v">>, <<tags[key]>>)])

Tags(i, tags) ==
    /\ fault = "none"
    /\ i \in 1..Len(inst)
    /\ heap' = [heap EXCEPT ![inst[i].tags] = TagsMerge(@, tags)]
    /\ hist' = Log(i, [op |-> "Tags", tags |-> tags])
    /\ ops' = ops + 1
    /\ UNCHANGED <<tmpl, inst, fault>>

\* ---------------------------------------------------------------- queries

\* The messages of the foreign errors (values of errors.New in another
\* library): 1 and 2 are distinct values with the same text.
ForeignMessage(f) ==
    CASE f = 1 -> <<"other library error">>
      [] f = 2 -> <<"other library error">>
      [] OTHER -> <<"io failure">>

\* strings.TrimPrefix(reflect.TypeOf(cause).String(), "*") of a foreign error.
ForeignType(f) == <<"errors", ".", "errorString">>

\* The Error behind an error value that the type switch finds to be an
\* Error or a *Error.
Deref(err) == IF err.t = "ptr" THEN inst[err.at] ELSE err.v

IsSystem(err) == err.t \in {"ptr", "val"}

\* Is as it would be if identity were the kind alone.
IsKindOnly(self, err) ==
    IF err.t = "nil" THEN FALSE
    ELSE IF err.t = "val" THEN self.kind = err.v.kind
    ELSE IF err.t = "ptr" THEN self.kind = inst[err.at].kind
    ELSE FALSE

Is(self, err) ==
    IF err.t = "nil" THEN FALSE
    ELSE IF err.t = "val"
    THEN self.kind = err.v.kind /\ self.module = err.v.module
    ELSE IF err.t = "ptr"
    THEN self.kind = inst[err.at].kind /\ self.module = inst[err.at].module
    ELSE FALSE

RECURSIVE String(_)
\* err.Error() of a non-nil error value.
ErrorText(err) ==
    IF err.t = "foreign" THEN ForeignMessage(err.id) ELSE String(Deref(err))

String(self) ==
    LET causeMessage ==
            IF self.cause.t # "nil" THEN <<": ">> \o ErrorText(self.cause) ELSE <<>>
    IN  self.message \o causeMessage

\* err == cause for a foreign cause: the same dynamic type and pointer.
SameValue(err, cause) == err.t = "foreign" /\ err.id = cause.id

\* HasForeign as it would be if only the value itself were accepted.
HasForeignSame(err, cause) == IF SameValue(err, cause) THEN "true" ELSE "false"

\* The comparison Has makes against a foreign cause. err.Error() on a nil
\* interface value is a nil dereference.
HasForeign(err, cause) ==
    IF SameValue(err, cause) THEN "true"
    ELSE IF err.t = "nil" THEN "panic"
    ELSE IF ErrorText(err) = ErrorText(cause) THEN "true" ELSE "false"

\* Has returns "true" or "false", or "panic" when the call panics.
RECURSIVE Has(_, _)
Has(self, err) ==
    IF Is(self, err) THEN "true"
    ELSE IF self.cause.t # "nil"
    THEN IF IsSystem(self.cause)
         THEN Has(Deref(self.cause), err)
         ELSE HasForeign(err, self.cause)
    ELSE "false"

\* ---------------------------------------------------------------- reports

\* The ANSI colour sequences the reports write.
Bold == "ESC[1;91m"
Red == "ESC[0;31m"
Reset == "ESC[0m"

CausedBy == "Caused by the following error:"
NotAvailable == "    (Stack trace not available)"
Ellipsis == "    [...]"

\* self.stackTrace[i].file + ":" + strconv.Itoa(self.stackTrace[i].line)
FileLine(f) == f.file \o <<":">> \o Itoa(f.line)

\* The frame loop's step as it would be without the ellipsis flag: a marker
\* for every repeat.
FrameStepEvery(stackTrace, i, acc) ==
    LET fileline == FileLine(stackTrace[i])
    IN  IF fileline \notin acc.seen
        THEN [report |-> acc.report \o <<"    ">> \o fileline \o <<"\n">>
                         \o <<"        ">> \o stackTrace[i].function \o <<"\n">>,
              seen |-> acc.seen \cup {fileline},
              ellipsis |-> acc.ellipsis]
        ELSE [report |-> acc.report \o <<Ellipsis, "\n">>,
              seen |-> acc.seen,
              ellipsis |-> TRUE]

\* What one iteration of the frame loop does to (report, seenTraces,
\* ellipsis) for the frame at i.
FrameStep(stackTrace, i, acc) ==
    LET fileline == FileLine(stackTrace[i])
    IN  IF fileline \notin acc.seen
        THEN [report |-> acc.report \o <<"    ">> \o fileline \o <<"\n">>
                         \o <<"        ">> \o stackTrace[i].function \o <<"\n">>,
              seen |-> acc.seen \cup {fileline},
              ellipsis |-> acc.ellipsis]
        ELSE IF ~acc.ellipsis
        THEN [report |-> acc.report \o <<Ellipsis, "\n">>,
              seen |-> acc.seen,
              ellipsis |-> TRUE]
        ELSE acc

\* for i := len(self.stackTrace) - 1; i >= 0; i-- (i is 1-based here).
RECURSIVE FrameLoop(_, _, _)
FrameLoop(stackTrace, i, acc) ==
    IF i = 0 THEN acc ELSE FrameLoop(stackTrace, i - 1, FrameStep(stackTrace, i, acc))

\* for key, value := range extra { report += key + "=" + Sprintf("%v", value) + " " }
\* with the keys met in the order ord lists them (Go leaves the order of a
\* range over a map open).
RECURSIVE ExtraPairs(_, _)
ExtraPairs(extra, ord) ==
    IF ord = <<>> THEN <<>>
    ELSE (IF Head(ord) \in DOMAIN extra
          THEN <<Head(ord), "=">> \o Sprintf(<<"%v">>, <<extra[Head(ord)]>>) \o <<" ">>
          ELSE <<>>)
         \o ExtraPairs(extra, Tail(ord))

\* The test as it would be if all were not consulted.
DescendAlways(self, all) == self.cause.t # "nil"

\* if all && self.cause != nil
Descend(self, all) == all /\ self.cause.t # "nil"

\* Returns [report, seen]: the text, and seenTraces as the call leaves it.
RECURSIVE stringReport(_, _, _, _)
stringReport(self, all, seenTraces, ord) ==
    LET frames ==
            IF Len(self.stackTrace) > 0
            THEN FrameLoop(self.stackTrace, Len(self.stackTrace),
                           [report |-> <<>>, seen |-> seenTraces, ellipsis |-> FALSE])
            ELSE [report |-> <<NotAvailable, "\n">>, seen |-> seenTraces,
                  ellipsis |-> FALSE]
        extra == MapOf(self.extra)
        own == frames.report \o <<Red>> \o self.message \o <<Reset, "\n">>
               \o (IF Cardinality(DOMAIN extra) > 0
                   THEN <<"    ">> \o ExtraPairs(extra, ord) \o <<"\n">>
                   ELSE <<>>)
    IN  IF Descend(self, all)
        THEN LET head == own \o <<"\n", CausedBy, "\n">>
             IN  IF IsSystem(self.cause)
                 THEN LET sub == stringReport(Deref(self.cause), all, frames.seen, ord)
                      IN  [report |-> head \o sub.report, seen |-> sub.seen]
                 ELSE [report |-> head \o <<NotAvailable, "\n">>
                                  \o <<Red>> \o ErrorText(self.cause) \o <<Reset, " (">>
                                  \o ForeignType(self.cause.id) \o <<")", "\n">>,
                       seen |-> frames.seen]
        ELSE [report |-> own, seen |-> frames.seen]

\* all: the variadic argument, <<>> when omitted.
StringReport(self, all, ord) ==
    LET _all == IF Len(all) > 0 THEN all[1] ELSE TRUE
    IN  <<Bold>> \o String(self) \o <<Reset, "\n", "\n">>
        \o <<"Traceback (most recent call last):", "\n">>
        \o stringReport(self, _all, {}, ord).report

\* _ANSI_COLOR_PATTERN.ReplaceAllString(s, "")
StripColor(s) == SelectSeq(s, LAMBDA r : r \notin {Bold, Red, Reset})

NilStacktrace == [t |-> "nil"]

\* sentry.NewFrame(runtime.Frame{Function, File, Line})
NewFrame(f) == [Function |-> f.function, AbsPath |-> f.file, Lineno |-> f.line]

\* The frames of a sentry.Stacktrace: the captured ones, last first.
SentryFrames(stackTrace) ==
    [j \in 1..Len(stackTrace) |-> NewFrame(stackTrace[Len(stackTrace) + 1 - j])]

\* sentry.NewEvent()
NewEvent ==
    [Level |-> "", Message |-> <<>>, Tags |-> EmptyMap, Extra |-> EmptyMap,
     Exception |-> <<>>]

\* The sentry.Exception of a foreign cause: Module and Stacktrace keep their
\* zero values.
ForeignException(cause) ==
    [Type |-> ForeignType(cause.id),
     Value |-> ErrorText(cause),
     Module |-> <<>>,
     Stacktrace |-> NilStacktrace]

\* The receiver's sentry.Exception as it would be with the module left out.
SystemExceptionNoModule(self, stackTrace) ==
    [Type |-> self.kind,
     Value |-> String(self),
     Module |-> <<>>,
     Stacktrace |-> stackTrace]

\* The sentry.Exception of the receiver.
SystemException(self, stackTrace) ==
    [Type |-> self.kind,
     Value |-> String(self),
     Module |-> self.module,
     Stacktrace |-> stackTrace]

RECURSIVE sentryReport(_, _)
sentryReport(self, report) ==
    LET caused ==
            IF self.cause.t = "nil" THEN report
            ELSE IF IsSystem(self.cause) THEN sentryReport(Deref(self.cause), report)
            ELSE [report EXCEPT !.Exception = Append(@, ForeignException(self.cause))]
        merged == [caused EXCEPT !.Extra = Assign(@, MapOf(self.extra)),
                                 !.Tags = Assign(@, MapOf(self.tags))]
        stackTrace ==
            IF Len(self.stackTrace) > 0
            THEN [t |-> "stacktrace", Frames |-> SentryFrames(self.stackTrace)]
            ELSE NilStacktrace
    IN  [merged EXCEPT !.Exception = Append(@, SystemException(self, stackTrace))]

\* The tags of the event before the chain is walked.
PackageTag(self, tags) == Assign(tags, "package" :> self.module)

SentryReport(self, ord) ==
    LET report == [NewEvent EXCEPT
                      !.Level = "error",
                      !.Message = StripColor(StringReport(self, <<>>, ord)),
                      !.Tags = PackageTag(self, @)]
    IN  sentryReport(self, report)

\* ---------------------------------------------------------------- inputs

Formats == {<<"cannot deposit">>, <<"%s">>}
Callers == {<<<<"bank", ".", "init">>>>, <<<<"shop", ".", "init">>>>, <<<<"main">>>>, <<>>}
Captures == {<<>>, <<TRUE>>, <<FALSE>>}
RaiseArgs == {<<>>, <<StringOf("cannot deposit")>>}

fTest == [file |-> <<"bank_test.go">>, line |-> 18, function |-> <<"bank", ".", "Test">>]
fView == [file |-> <<"bank.go">>, line |-> 117, function |-> <<"bank", ".", "view">>]
fRepo == [file |-> <<"bank.go">>, line |-> 11, function |-> <<"bank", ".", "repository">>]
CallStacks == {<<>>, <<fView, fTest>>, <<fRepo, fView, fTest>>, <<fView, fView, fTest>>}

MaxSkip == 4
SkipCounts == -1..MaxSkip

WithFormats == {<<"cannot add money to account ", "%s">>, <<"retry">>}
WithArgs == {<<>>, <<StringOf("ARN3107")>>}

\* The maps on keys taken from K with values taken from V.
Maps(K, V) == UNION {[D -> V] : D \in SUBSET K}

ExtraMaps == Maps({"userID", "accountID"}, {IntOf(310700), StringOf("ARN3107")})
TagMaps == Maps({"package", "apiVersion"}, {IntOf(2), StringOf("v2")})

NumForeign == 3
ForeignErrors == {Foreign(f) : f \in 1..NumForeign}

Instances == 1..Len(inst)
Templates == 1..Len(tmpl)

\* The error values a caller can hand to Cause, Is and Has.
Errors ==
    {NilErr} \cup ForeignErrors
    \cup {Ptr(j) : j \in 1..Len(inst)}
    \cup {Val(tmpl[t]) : t \in 1..Len(tmpl)}

\* ---------------------------------------------------------------- behaviour

Init ==
    /\ tmpl = <<>>
    /\ inst = <<>>
    /\ heap = <<>>
    /\ hist = <<>>
    /\ ops = 0
    /\ fault = "none"

\* The run goes on: no panic has ended it and fewer than n calls were made.
Within(n) == fault = "none" /\ ops < n

\* Every operation on every input.
Next ==
    \/ /\ Within(MaxOps)
       /\ \E message \in Formats, c \in Captures, callers \in Callers :
            New(message, c, callers)
    \/ /\ Within(MaxOps)
       /\ \E t \in 1..Len(tmpl), args \in RaiseArgs, cs \in CallStacks :
            Raise(t, args, cs)
    \/ /\ Within(MaxOps)
       /\ \E i \in 1..Len(inst), frames \in SkipCounts : Skip(i, frames)
    \/ /\ Within(MaxOps)
       /\ \E i \in 1..Len(inst), message \in WithFormats, args \in WithArgs :
            With(i, message, args)
    \/ /\ Within(MaxOps)
       /\ \E i \in 1..Len(inst), extra \in ExtraMaps : Extra(i, extra)
    \/ /\ Within(MaxOps)
       /\ \E i \in 1..Len(inst), err \in Errors : Cause(i, err)
    \/ /\ Within(MaxOps)
       /\ \E i \in 1..Len(inst), tags \in TagMaps : Tags(i, tags)

Spec == Init /\ [][Next]_vars

\* Chains and their messages: templates declared in two packages, instances
\* raised with and without operands, context added, causes attached.
ChainCallers == {<<<<"bank", ".", "init">>>>, <<<<"shop", ".", "init">>>>}
ChainWith ==
    {<<<<"cannot add money to account ", "%s">>, <<StringOf("ARN3107")>>>>,
     <<<<"retry">>, <<>>>>}

NextChain ==
    \/ /\ Within(MaxChainOps)
       /\ \E message \in Formats, callers \in ChainCallers : New(message, <<>>, callers)
    \/ /\ Within(MaxChainOps)
       /\ \E t \in Templates, args \in RaiseArgs : Raise(t, args, <<fView, fTest>>)
    \/ /\ Within(MaxChainOps)
       /\ \E i \in Instances, w \in ChainWith : With(i, w[1], w[2])
    \/ /\ Within(MaxChainOps)
       /\ \E i \in Instances, err \in Errors : Cause(i, err)

SpecChain == Init /\ [][NextChain]_vars

\* Chains for Has: templates of either module, instances raised with one
\* argument list, every error value as a cause.
NextHas ==
    \/ /\ Within(MaxHasOps)
       /\ \E message \in Formats, callers \in ChainCallers : New(message, <<>>, callers)
    \/ /\ Within(MaxHasOps)
       /\ \E t \in Templates : Raise(t, <<StringOf("cannot deposit")>>, <<fView, fTest>>)
    \/ /\ Within(MaxHasOps)
       /\ \E i \in Instances, err \in Errors : Cause(i, err)

SpecHas == Init /\ [][NextHas]_vars

\* Reports: instances raised under nested call stacks (or none), extra
\* entries merged, causes attached.
ReportExtra == {("userID" :> IntOf(310700)) @@ ("accountID" :> StringOf("ARN3107"))}

\* The causes attached in the report scenarios: none, the test's foreign
\* error, an instance, a template.
ReportCauses == Errors \ (ForeignErrors \ {Foreign(1)})

NextReport ==
    \/ /\ Within(MaxReportOps)
       /\ \E message \in Formats : New(message, <<>>, <<<<"bank", ".", "init">>>>)
    \/ /\ Within(MaxReportOps)
       /\ \E t \in Templates, cs \in CallStacks : Raise(t, <<>>, cs)
    \/ /\ Within(MaxReportOps)
       /\ \E i \in Instances, extra \in ReportExtra : Extra(i, extra)
    \/ /\ Within(MaxReportOps)
       /\ \E i \in Instances, err \in ReportCauses : Cause(i, err)

SpecReport == Init /\ [][NextReport]_vars

\* Instances side by side: one template raised more than once, every mutator
\* applied, every extra and tags map merged.
NextMerge ==
    \/ /\ Within(MaxMergeOps)
       /\ New(<<"%s">>, <<>>, <<<<"bank", ".", "init">>>>)
    \/ /\ Within(MaxMergeOps)
       /\ \E t \in Templates, args \in RaiseArgs : Raise(t, args, <<fView, fTest>>)
    \/ /\ Within(MaxMergeOps)
       /\ \E i \in Instances : Skip(i, 1)
    \/ /\ Within(MaxMergeOps)
       /\ \E i \in Instances : With(i, <<"retry">>, <<>>)
    \/ /\ Within(MaxMergeOps)
       /\ \E i \in Instances, extra \in ExtraMaps : Extra(i, extra)
    \/ /\ Within(MaxMergeOps)
       /\ \E i \in Instances, err \in Errors : Cause(i, err)
    \/ /\ Within(MaxMergeOps)
       /\ \E i \in Instances, tags \in TagMaps : Tags(i, tags)

SpecMerge == Init /\ [][NextMerge]_vars

\* ---------------------------------------------------------------- chains

\* The template instance i was raised from.
TemplateOf(i) == tmpl[hist[i][1].t]

\* Following the causes from err ends (no instance is met twice).
RECURSIVE Finite(_, _)
Finite(err, seen) ==
    IF err.t = "ptr"
    THEN err.at \notin seen /\ Finite(inst[err.at].cause, seen \cup {err.at})
    ELSE IF err.t = "val" THEN Finite(err.v.cause, seen)
    ELSE TRUE

FiniteChain(i) == Finite(Ptr(i), {})

\* The nodes of the chain that starts at err, outermost first.
RECURSIVE Chain(_)
Chain(err) ==
    IF err.t = "nil" THEN <<>>
    ELSE IF err.t = "foreign" THEN <<err>>
    ELSE <<err>> \o Chain(Deref(err).cause)

ChainOf(i) == Chain(Ptr(i))
Leaf(i) == ChainOf(i)[Len(ChainOf(i))]
EndsForeign(i) == Leaf(i).t = "foreign"

\* The error values the queries are asked about.
Candidates ==
    {e \in Errors \cup {Val(inst[j]) : j \in Instances} : Finite(e, {})}

\* ---------------------------------------------------------------- C1

\* Two templates declared with the same message format in the same module.
SameDeclaration(a, b) == a.message = b.message /\ a.module = b.module

\* C1: Is(candidate) is true if and only if candidate is non-nil, is an Error
\* or *Error, and was declared with the receiver's message format in the
\* receiver's module: instances of one template satisfy Is in both directions
\* whatever was formatted into or merged onto them, and Is is false for nil,
\* for a foreign error and for an instance of a template with another format.
C1_Is ==
    \A i \in Instances :
        LET self == inst[i]
            T == TemplateOf(i)
        IN  /\ ~Is(self, NilErr)
            /\ \A e \in ForeignErrors : ~Is(self, e)
            /\ \A j \in Instances :
                    /\ Is(self, Ptr(j)) = SameDeclaration(T, TemplateOf(j))
                    /\ Is(self, Val(inst[j])) = SameDeclaration(T, TemplateOf(j))
            /\ \A t \in Templates :
                    /\ Is(self, Val(tmpl[t])) = SameDeclaration(T, tmpl[t])
                    /\ Is(tmpl[t], Ptr(i)) = SameDeclaration(T, tmpl[t])
                    /\ ~Is(tmpl[t], NilErr)

\* Two instances of one template with different messages, one of them with
\* context and a cause, that are each other's Is; and a template of the same
\* module with another format whose formatted message is the same, which is
\* not.
C1_Witness ==
    \E i, j \in Instances, u \in Templates :
        /\ i # j
        /\ hist[i][1].t = hist[j][1].t
        /\ inst[i].message # inst[j].message
        /\ Is(inst[i], Ptr(j)) /\ Is(inst[j], Ptr(i))
        /\ tmpl[u].message # TemplateOf(i).message
        /\ tmpl[u].module = TemplateOf(i).module
        /\ Sprintf(tmpl[u].message, <<>>) = inst[i].message
        /\ ~Is(inst[i], Val(tmpl[u]))

\* ---------------------------------------------------------------- C2

\* Some system instance of the chain of i, i included, Is(e).
IsInChain(i, e) ==
    \E n \in 1..Len(ChainOf(i)) :
        IsSystem(ChainOf(i)[n]) /\ Is(Deref(ChainOf(i)[n]), e)

\* C2 as stated: Has(candidate) is true exactly when some system instance of
\* the chain Is(candidate) or the chain ends in a foreign cause that is
\* candidate itself.
C2_HasOnlyItself ==
    \A i \in Instances :
        FiniteChain(i) =>
            \A e \in Candidates :
                (Has(inst[i], e) = "true")
                    = (IsInChain(i, e) \/ (EndsForeign(i) /\ e = Leaf(i)))

\* C2, amended: Has(candidate) is true exactly when some system instance of
\* the chain Is(candidate), or the chain ends in a foreign cause and candidate
\* is non-nil and is that cause or has the same Error() text. Has(nil) panics
\* when the chain ends in a foreign cause and is false otherwise. For a chain
\* that ends in a foreign cause C: Has(C) is true, Has(T) is true for the
\* template T of every instance of the chain, and Has(D) is false for every
\* foreign D whose text differs from C's.
C2_Has ==
    \A i \in Instances :
        FiniteChain(i) =>
            /\ \A e \in Candidates :
                    /\ (Has(inst[i], e) = "true")
                          = \/ IsInChain(i, e)
                            \/ /\ EndsForeign(i)
                               /\ e.t # "nil"
                               /\ (e = Leaf(i) \/ ErrorText(e) = ErrorText(Leaf(i)))
                    /\ (Has(inst[i], e) = "panic") = (e.t = "nil" /\ EndsForeign(i))
            /\ EndsForeign(i) =>
                    /\ Has(inst[i], Leaf(i)) = "true"
                    /\ \A n \in 1..Len(ChainOf(i)) :
                            ChainOf(i)[n].t = "ptr" =>
                                Has(inst[i], Val(TemplateOf(ChainOf(i)[n].at))) = "true"
                    /\ \A D \in ForeignErrors :
                            ForeignMessage(D.id) # ForeignMessage(Leaf(i).id) =>
                                Has(inst[i], D) = "false"

\* An instance whose cause is another instance, of another template, whose
\* cause is a foreign error: that error and a distinct one with its text are
\* found, one with another text is not.
C2_Witness ==
    \E i, j \in Instances, C, D, F \in ForeignErrors :
        /\ FiniteChain(i)
        /\ ChainOf(i) = <<Ptr(i), Ptr(j), C>>
        /\ ~SameDeclaration(TemplateOf(i), TemplateOf(j))
        /\ D # C /\ ForeignMessage(D.id) = ForeignMessage(C.id)
        /\ ForeignMessage(F.id) # ForeignMessage(C.id)
        /\ Has(inst[i], C) = "true"
        /\ Has(inst[i], D) = "true"
        /\ Has(inst[i], F) = "false"
        /\ Has(inst[i], Val(TemplateOf(j))) = "true"

\* ---------------------------------------------------------------- C3

\* ": " + suffix for each With call of a log, in call order.
RECURSIVE Suffixes(_)
Suffixes(calls) ==
    IF calls = <<>> THEN <<>>
    ELSE (IF Head(calls).op = "With"
          THEN <<": ">> \o Sprintf(Head(calls).message, Head(calls).args)
          ELSE <<>>)
         \o Suffixes(Tail(calls))

\* A node's own message.
NodeMessage(e) == IF e.t = "foreign" THEN ForeignMessage(e.id) ELSE Deref(e).message

\* The messages of a chain on one line.
RECURSIVE Flatten(_)
Flatten(nodes) ==
    IF nodes = <<>> THEN <<>>
    ELSE NodeMessage(Head(nodes))
         \o (IF Len(nodes) > 1 THEN <<": ">> ELSE <<>>)
         \o Flatten(Tail(nodes))

\* Declare("cannot deposit").Raise().With("cannot add money to account %s",
\* "ARN3107").Cause(foreign "other library error")
Deposit(i) ==
    /\ TemplateOf(i).message = <<"cannot deposit">>
    /\ hist[i][1].args = <<>>
    /\ Tail(hist[i]) = <<[op |-> "With",
                          message |-> <<"cannot add money to account ", "%s">>,
                          args |-> <<StringOf("ARN3107")>>]>>
    /\ inst[i].cause.t = "foreign"
    /\ ForeignMessage(inst[i].cause.id) = <<"other library error">>

\* C3: Error()/String() is the message formatted at Raise, then ": " + suffix
\* for each With call in call order, then ": " + cause.Error() when a cause is
\* attached; a chain renders as one line of all its messages, outermost first.
C3_String ==
    \A i \in Instances :
        FiniteChain(i) =>
            /\ String(inst[i])
                 = Sprintf(TemplateOf(i).message, hist[i][1].args)
                   \o Suffixes(Tail(hist[i]))
                   \o (IF inst[i].cause.t = "nil" THEN <<>>
                       ELSE <<": ">> \o ErrorText(inst[i].cause))
            /\ String(inst[i]) = Flatten(ChainOf(i))
            /\ ErrorText(Ptr(i)) = String(inst[i])
            /\ Deposit(i) =>
                    String(inst[i])
                      = <<"cannot deposit", ": ", "cannot add money to account ",
                          "ARN3107", ": ", "other library error">>

C3_Witness == \E i \in Instances : Deposit(i)

\* ---------------------------------------------------------------- C4

\* C4: Skip(n) never faults: with n greater than the number of captured
\* frames (none captured included) it returns the same instance with an
\* empty stack trace.
C4_SkipNeverFaults ==
    [][\A i \in Instances, n \in SkipCounts :
          (n > Len(inst[i].stackTrace) /\ Skip(i, n)) =>
              (fault' = "none" /\ inst'[i].stackTrace = <<>>)]_vars

\* ---------------------------------------------------------------- C5

\* What instance i holds: its fields, with the content of its two maps.
Fields(i) == [e |-> inst[i], extra |-> MapOf(inst[i].extra), tags |-> MapOf(inst[i].tags)]

\* The map objects instance i refers to.
Refs(i) == {inst[i].extra, inst[i].tags}

\* C5: a template never changes after its declaration; a raised instance
\* starts with an empty extra map and an empty tags map of its own and no
\* cause, and a Raise or a mutator call on one instance changes no field of
\* any other instance.
C5_Independent ==
    [][/\ \A t \in Templates : tmpl'[t] = tmpl[t]
       /\ Len(inst') > Len(inst) =>
            /\ \A j \in Instances : Fields(j)' = Fields(j)
            /\ LET new == inst'[Len(inst')]
               IN  /\ new.cause = NilErr
                   /\ new.extra # new.tags
                   /\ new.extra # NilMap /\ new.tags # NilMap
                   /\ heap'[new.extra] = EmptyMap /\ heap'[new.tags] = EmptyMap
                   /\ \A j \in Instances : Refs(j) \cap {new.extra, new.tags} = {}
       /\ Len(inst') = Len(inst) =>
            \E i \in Instances \cup {0} :
                \A j \in Instances \ {i} : Fields(j)' = Fields(j)]_vars

\* Two instances of one template, one left as raised, the other with context,
\* extra entries and tags.
C5_Witness ==
    \E i, j \in Instances :
        /\ i # j
        /\ hist[i][1].t = hist[j][1].t
        /\ Len(hist[i]) = 1
        /\ Fields(i).extra = EmptyMap /\ Fields(i).tags = EmptyMap
        /\ Fields(j).extra # EmptyMap \/ Fields(j).tags # EmptyMap

\* ---------------------------------------------------------------- C6

\* The calls of instance i's log that are op calls and give key (arg names
\* the argument of op).
Giving(i, op, key) ==
    {p \in 1..Len(hist[i]) :
        hist[i][p].op = op
        /\ key \in DOMAIN (IF op = "Extra" THEN hist[i][p].extra ELSE hist[i][p].tags)}

Last(S) == CHOOSE p \in S : \A q \in S : q <= p

Keys == {"userID", "accountID", "package", "apiVersion"}

\* The display-string form of a value.
Display(v) == IF v.t = "string" THEN v.s ELSE Itoa(v.n)

\* C6: within one instance each key of extra (of tags) maps to the value (the
\* display string of the value) given by the most recent Extra (Tags) call
\* that contained it, and is absent when no call contained it.
C6_LastWriteWins ==
    \A i \in Instances, key \in Keys :
        /\ IF Giving(i, "Extra", key) = {}
           THEN key \notin DOMAIN Fields(i).extra
           ELSE /\ key \in DOMAIN Fields(i).extra
                /\ Fields(i).extra[key] = hist[i][Last(Giving(i, "Extra", key))].extra[key]
        /\ IF Giving(i, "Tags", key) = {}
           THEN key \notin DOMAIN Fields(i).tags
           ELSE /\ key \in DOMAIN Fields(i).tags
                /\ Fields(i).tags[key]
                     = Display(hist[i][Last(Giving(i, "Tags", key))].tags[key])
        /\ DOMAIN Fields(i).extra \cup DOMAIN Fields(i).tags \subseteq Keys

\* Two Extra calls on one instance: the later overwrites a key of the earlier
\* and leaves another key of the earlier alone.
C6_Witness ==
    \E i \in Instances, key, other \in Keys :
        /\ Cardinality(Giving(i, "Extra", key)) = 2
        /\ Cardinality(Giving(i, "Extra", other)) = 1
        /\ LET p == Last(Giving(i, "Extra", key))
               q == CHOOSE q \in Giving(i, "Extra", key) : q # p
           IN  /\ hist[i][p].extra[key] # hist[i][q].extra[key]
               /\ Giving(i, "Extra", other) = {q}
               /\ Fields(i).extra[key] = hist[i][p].extra[key]
               /\ Fields(i).extra[other] = hist[i][q].extra[other]

\* ---------------------------------------------------------------- C7

\* The positions of rune r in s from p on, ascending.
Scan(s, r, p) ==
    LET at == {q \in p..Len(s) : s[q] = r}
    IN  [k \in 1..Cardinality(at) |->
            CHOOSE q \in at : Cardinality({x \in at : x < q}) = k - 1]

\* The orders a range over the extra keys can take.
KeyOrders == {<<"userID", "accountID">>, <<"accountID", "userID">>}

\* The orders to tell apart for a report over nodes: when no node holds an
\* extra entry no range loop runs and there is nothing to order.
RangeOrders(nodes) ==
    IF \A k \in 1..Len(nodes) :
            nodes[k].t = "foreign" \/ MapOf(Deref(nodes[k]).extra) = EmptyMap
    THEN {<<>>}
    ELSE KeyOrders

\* The text at position p of s is the section message m: Red, m, Reset.
MessageAt(s, p, m) ==
    /\ p + Len(m) + 1 <= Len(s)
    /\ s[p] = Red
    /\ SubSeq(s, p + 1, p + Len(m)) = m
    /\ s[p + Len(m) + 1] = Reset

\* C7: for a chain of N nodes StringReport(true) has exactly N message
\* sections, those of the nodes outermost first, and one "Caused by the
\* following error:" separator between each two; StringReport(false) has the
\* receiver's section alone and no separator.
C7_Sections ==
    \A i \in Instances :
        FiniteChain(i) =>
            \A nodes \in {ChainOf(i)} :
            \A ord \in RangeOrders(nodes) :
            \A full \in {StringReport(inst[i], <<>>, ord)} :
            \A own \in {StringReport(inst[i], <<FALSE>>, ord)} :
            \A P \in {Scan(full, Red, 1)}, Q \in {Scan(full, CausedBy, 1)} :
            \A R \in {Scan(own, Red, 1)} :
                LET N == Len(nodes)
                IN  /\ StringReport(inst[i], <<TRUE>>, ord) = full
                    /\ Len(P) = N
                    /\ Len(Q) = N - 1
                    /\ \A k \in 1..N : MessageAt(full, P[k], NodeMessage(nodes[k]))
                    /\ \A k \in 1..(N - 1) : P[k] < Q[k] /\ Q[k] < P[k + 1]
                    /\ Len(R) = 1
                    /\ MessageAt(own, R[1], inst[i].message)
                    /\ Scan(own, CausedBy, 1) = <<>>

\* The chain system -> system -> foreign: three sections and two separators,
\* and one section without a separator when all is false.
C7_Witness ==
    \E i, j \in Instances, C \in ForeignErrors, ord \in KeyOrders :
        /\ FiniteChain(i)
        /\ ChainOf(i) = <<Ptr(i), Ptr(j), C>>
        /\ Len(Scan(StringReport(inst[i], <<>>, ord), Red, 1)) = 3
        /\ Len(Scan(StringReport(inst[i], <<>>, ord), CausedBy, 1)) = 2
        /\ Len(Scan(StringReport(inst[i], <<FALSE>>, ord), Red, 1)) = 1

\* ---------------------------------------------------------------- C8

\* The number of places where sub occurs in s.
Count(s, sub) ==
    Cardinality({p \in 1..(Len(s) - Len(sub) + 1) : SubSeq(s, p, p + Len(sub) - 1) = sub})

\* The line that prints location L.
Printed(L) == <<"    ">> \o L \o <<"\n">>

Locations(stackTrace) == {FileLine(stackTrace[k]) : k \in 1..Len(stackTrace)}

\* The stack trace of a node (a foreign node has none).
StackOf(e) == IF e.t = "foreign" THEN <<>> ELSE Deref(e).stackTrace

\* The locations the nodes before the k-th hold.
Before(nodes, k) == UNION {Locations(StackOf(nodes[m])) : m \in 1..(k - 1)}

\* The frame lines of the k-th section of a full report: from the line after
\* the heading or the separator to the section's message.
FrameLines(full, k) ==
    LET P == Scan(full, Red, 1)
        Q == Scan(full, CausedBy, 1)
        from == IF k = 1
                THEN Scan(full, "Traceback (most recent call last):", 1)[1] + 2
                ELSE Q[k - 1] + 2
    IN  SubSeq(full, from, P[k] - 1)

\* C8: in one StringReport(true) every file:line location of the chain is
\* printed once, in the section of the first instance (outermost first) that
\* holds it; a section whose instance holds locations already printed (by an
\* earlier instance, or earlier in its own loop) has one "[...]" marker for
\* all of them, and a section without repeats has none.
C8_Dedup ==
    \A i \in Instances :
        FiniteChain(i) =>
            \A nodes \in {ChainOf(i)} :
            \A ord \in RangeOrders(nodes) :
            \A full \in {StringReport(inst[i], <<>>, ord)} :
            \A all \in {Before(nodes, Len(nodes) + 1)} :
                /\ \A L \in all : Count(full, Printed(L)) = 1
                /\ \A k \in 1..Len(nodes) :
                    \A lines \in {FrameLines(full, k)} :
                    \A fresh \in {Locations(StackOf(nodes[k])) \ Before(nodes, k)} :
                        /\ \A L \in all :
                                Count(lines, Printed(L)) = IF L \in fresh THEN 1 ELSE 0
                        /\ Count(lines, <<Ellipsis>>)
                              = IF Len(StackOf(nodes[k])) > Cardinality(fresh)
                                THEN 1 ELSE 0

\* An instance whose cause is an instance that holds two locations the first
\* has printed: the cause's section prints neither and has one marker.
C8_Witness ==
    \E i, j \in Instances, ord \in KeyOrders :
        /\ i # j
        /\ inst[i].cause = Ptr(j)
        /\ FiniteChain(i)
        /\ Cardinality(Locations(inst[i].stackTrace) \cap Locations(inst[j].stackTrace)) >= 2
        /\ Locations(inst[j].stackTrace) \ Locations(inst[i].stackTrace) # {}
        /\ Count(FrameLines(StringReport(inst[i], <<>>, ord), 2), <<Ellipsis>>) = 1
        /\ Count(StringReport(inst[i], <<>>, ord), <<Ellipsis>>) = 1

\* ---------------------------------------------------------------- C9

\* C9: the exception list of SentryReport() has one record per node of the
\* chain, cause first: the foreign leaf (if any) first, with no module and no
\* stack trace, then the system instances innermost to outermost, each with
\* its kind as type and its module, the receiver's record last.
C9_Exceptions ==
    \A i \in Instances :
        FiniteChain(i) =>
            \A nodes \in {ChainOf(i)} :
            \A ord \in RangeOrders(nodes) :
            \A X \in {SentryReport(inst[i], ord).Exception} :
                LET N == Len(nodes)
                IN  /\ Len(X) = N
                    /\ \A k \in 1..N :
                            LET n == nodes[N + 1 - k]
                            IN  IF n.t = "foreign"
                                THEN /\ k = 1
                                     /\ X[k].Type = ForeignType(n.id)
                                     /\ X[k].Value = ForeignMessage(n.id)
                                     /\ X[k].Module = <<>>
                                     /\ X[k].Stacktrace = NilStacktrace
                                ELSE /\ X[k].Type = Deref(n).kind
                                     /\ X[k].Module = Deref(n).module
                                     /\ X[k].Value = Flatten(Chain(n))
                                     /\ n.t = "ptr" =>
                                            /\ X[k].Type = TemplateOf(n.at).message
                                            /\ X[k].Module = TemplateOf(n.at).module
                    /\ X[N].Type = inst[i].kind /\ X[N].Module = inst[i].module

\* The chain system -> system -> foreign: three records, the foreign one
\* first, the receiver's last.
C9_Witness ==
    \E i, j \in Instances, C \in ForeignErrors, ord \in KeyOrders :
        /\ FiniteChain(i)
        /\ ChainOf(i) = <<Ptr(i), Ptr(j), C>>
        /\ LET X == SentryReport(inst[i], ord).Exception
           IN  /\ Len(X) = 3
               /\ X[1].Type = ForeignType(C.id) /\ X[1].Value = ForeignMessage(C.id)
               /\ X[2].Type = inst[j].kind /\ X[2].Value = String(inst[j])
               /\ X[3].Type = inst[i].kind /\ X[3].Value = String(inst[i])
               /\ X[2].Value # X[3].Value

\* ---------------------------------------------------------------- C10

\* C10: the event of SentryReport() has its "package" tag equal to the
\* receiver's module, whatever tags the instances of the chain hold.
C10_PackageTag ==
    \A i \in Instances :
        FiniteChain(i) =>
            \A ord \in KeyOrders :
            \A event \in {SentryReport(inst[i], ord)} :
                /\ "package" \in DOMAIN event.Tags
                /\ event.Tags["package"] = inst[i].module

\* ---------------------------------------------------------------- C11

\* The instance the cause field of instance i points to, if it is one (the
\* field holds one error value, so there is at most one).
CauseLink(i) == IF inst[i].cause.t = "ptr" THEN {inst[i].cause.at} ELSE {}

\* The instances met within n cause links from the instances of S.
RECURSIVE LinkedWithin(_, _)
LinkedWithin(S, n) ==
    IF n = 0 THEN {}
    ELSE LET next == UNION {CauseLink(j) : j \in S}
         IN  next \cup LinkedWithin(next, n - 1)

\* The instances reachable from i by one or more cause links.
Reachable(i) == LinkedWithin({i}, Len(inst))

\* C11: after any sequence of Raise and mutator calls, Cause being given any
\* existing instance or foreign error, no instance is reachable from itself
\* by following cause links.
C11_Acyclic == \A i \in Instances : i \notin Reachable(i)

====
